---- MODULE Spec2Model ----
(***************************************************************************)
(* The restore tool of src/mongo/tools/restore.cpp: Restore::doRun, the    *)
(* recursive Restore::drillDown, Restore::gotObject and the helpers they   *)
(* call, as one sequential state machine.                                  *)
(*                                                                         *)
(* Strings (file names, namespaces, the oplog limit) are sequences of      *)
(* tokens in which "." and ":" are tokens of their own, so that suffix     *)
(* tests, find/substr and comparisons against literals are computed on     *)
(* the text and not assumed.  The recursion of drillDown is an explicit    *)
(* stack of directory frames.  What the code reads from outside (file      *)
(* contents, directory listings below the root, answers of the             *)
(* destination server) is chosen when the code reads it.                   *)
(***************************************************************************)
EXTENDS Integers, Sequences, FiniteSets, TLC

\* ------------------------------------------------------------------ bounds
\* entries per directory
MaxDirLen == 2
\* records per data file and entries per oplog file
MaxRecs == 2
\* tokens of the --oplogLimit string
MaxLimitLen == 3

\* ----------------------------------------------------------------- strings
NPOS == 0

\* std::string::find / find_first_of for a single character
find(s, c) ==
    IF \E k \in 1..Len(s) : s[k] = c
    THEN CHOOSE k \in 1..Len(s) : s[k] = c /\ \A j \in 1..(k-1) : s[j] # c
    ELSE NPOS

find_last_of(s, c) ==
    IF \E k \in 1..Len(s) : s[k] = c
    THEN CHOOSE k \in 1..Len(s) : s[k] = c /\ \A j \in (k+1)..Len(s) : s[j] # c
    ELSE NPOS

\* s.substr(0, pos) with pos a position found above (NPOS: the whole string)
Before(s, pos) == IF pos = NPOS THEN s ELSE SubSeq(s, 1, pos - 1)

\* s.substr(pos + 1)
After(s, pos) == SubSeq(s, pos + 1, Len(s))

endsWith(s, suffix) ==
    /\ Len(s) >= Len(suffix)
    /\ SubSeq(s, Len(s) - Len(suffix) + 1, Len(s)) = suffix

nsToDatabase(n) == Before(n, find(n, "."))

nsToCollectionSubstring(n) == After(n, find(n, "."))

\* a sentinel that is also the namespace of a collection
OPLOG_SENTINEL_ValidNs == <<"test", ".", "a">>

OPLOG_SENTINEL == <<"$oplog">>

\* ------------------------------------------------------------ file names
A_BSON        == <<"a", ".", "bson">>
A_META        == <<"a", ".", "metadata", ".", "json">>
INDEXES_BSON  == <<"system", ".", "indexes", ".", "bson">>
USERS_BSON    == <<"system", ".", "users", ".", "bson">>
USERS_META    == <<"system", ".", "users", ".", "metadata", ".", "json">>
OPLOG_BSON    == <<"oplog", ".", "bson">>
PROFILE_BSON  == <<"system", ".", "profile", ".", "bson">>
HIDDEN_BSON   == <<".", "h", ".", "bson">>
README        == <<"README">>
CONFIG        == <<"config">>

File(n) == [name |-> n, dir |-> FALSE]
Dir(n)  == [name |-> n, dir |-> TRUE]

\* what the dump root may hold, and what a directory below it may hold
RootPool == { File(A_BSON), File(A_META), File(INDEXES_BSON), File(OPLOG_BSON),
              Dir(<<"db1">>) }
SubPool  == { File(USERS_BSON), File(USERS_META), File(INDEXES_BSON) }

\* directory listings: the order is the iterator's, names are unique
Listings(pool) ==
    { l \in UNION { [1..k -> pool] : k \in 0..MaxDirLen } :
        \A i, j \in 1..Len(l) : i # j => l[i].name # l[j].name }

Names(l) == { l[k].name : k \in 1..Len(l) }

\* the restore directory given on the command line: a directory, or one file
RootDirs  == { [name |-> <<"dump">>, dir |-> TRUE, kids |-> l,
                parent |-> <<>>, sibs |-> {}] : l \in Listings(RootPool) }
RootFiles ==
    { [name |-> n, dir |-> FALSE, kids |-> <<>>, parent |-> p, sibs |-> s] :
        n \in {A_BSON, USERS_BSON}, p \in {<<>>, <<"foo">>, <<"foo", ".", "d">>},
        s \in {{}, {A_META, USERS_META}} }
    \cup
    { [name |-> n, dir |-> FALSE, kids |-> <<>>, parent |-> <<>>, sibs |-> {}] :
        n \in {PROFILE_BSON, HIDDEN_BSON, README, A_META} }

\* ------------------------------------------------------------ timestamps
\* OpTime: <<seconds, increment>>; OpTime() is <<0, 0>>
NullOpTime == <<0, 0>>
isNull(t) == t[1] = 0
OpLess(a, b) == a[1] < b[1] \/ (a[1] = b[1] /\ a[2] < b[2])
OpGreater(a, b) == OpLess(b, a)

\* timestamps of oplog entries, in the dump and on the destination
TS == { <<1, 0>>, <<1, 1>>, <<11, 0>> }

\* ------------------------------------------------------------- --oplogLimit
LimitChars == {"1", ":"}
LimitStrings == UNION { [1..k -> LimitChars] : k \in 0..MaxLimitLen }

IsDigit(c) == c \in {"0", "1", "2", "3", "4", "5", "6", "7", "8", "9"}
DigitVal(c) == CASE c = "0" -> 0 [] c = "1" -> 1 [] c = "2" -> 2 [] c = "3" -> 3
                 [] c = "4" -> 4 [] c = "5" -> 5 [] c = "6" -> 6 [] c = "7" -> 7
                 [] c = "8" -> 8 [] c = "9" -> 9

\* boost::lexical_cast<unsigned long>: the text must be a non-empty digit string
CanCast(s) == Len(s) > 0 /\ \A k \in 1..Len(s) : IsDigit(s[k])

RECURSIVE lexical_cast(_)
lexical_cast(s) ==
    IF s = <<>> THEN 0
    ELSE 10 * lexical_cast(SubSeq(s, 1, Len(s) - 1)) + DigitVal(s[Len(s)])

\* the seconds part and the increment part the code cuts out of the limit
LimitSecs(lim) == Before(lim, find(lim, ":"))
LimitInc(lim) ==
    LET i == find(lim, ":")
    IN  IF i # NPOS /\ i < Len(lim) THEN After(lim, i) ELSE <<"0">>

\* OpTime(unsigned, unsigned).  The limits of LimitStrings stay far below 2^32,
\* so the narrowing from unsigned long changes no value here.
MakeOpTime(secs, inc) == << secs, inc >>

\* ------------------------------------------------------------- the matcher
\* a scoped_ptr is <<>> when it holds NULL and <<x>> when it holds x
NULL == << >>

\* a query that left out the lower bound
TsRestrict_NoLowerBound(t, limit) == [gt |-> << >>, lt |-> limit]

\* the query { ts : { $gt : tsOptime, $lt : limit } }; $gt is left out (gt = <<>>)
\* when tsOptime is null
TsRestrict(t, limit) == [gt |-> IF isNull(t) THEN << >> ELSE << t >>, lt |-> limit]

\* Matcher::matches on an oplog entry
matches(m, obj) ==
    /\ (m.gt # << >> => OpGreater(obj.ts, m.gt[1]))
    /\ OpLess(obj.ts, m.lt)

\* ----------------------------------------------------------------- records
\* the "user" values of system.users records, and the one document of other files
Ids == {"a", "b"}
IdsOf(leaf) == IF leaf = USERS_BSON THEN Ids ELSE {"a"}
DataRecords(leaf) == { [user |-> u, op |-> "i", ts |-> NullOpTime] : u \in IdsOf(leaf) }
\* oplog entries: no-ops, and operations with each timestamp
OplogRecords == { [user |-> "a", op |-> "n", ts |-> <<1, 0>>] }
                  \cup { [user |-> "a", op |-> "i", ts |-> t] : t \in TS }

\* --------------------------------------------------------------------- state
VARIABLES
    toolGlobalParams,          \* db, coll
    mongoRestoreGlobalParams,  \* drop, restoreOptions, restoreIndexes, oplogReplay, w
    root,                      \* the restore directory
    pc,                        \* position in doRun / drillDown
    status,                    \* "running", or how the process ended
    stack,                     \* directory frames of the drillDown calls in progress
    path,                      \* the argument of the drillDown call in progress
    ns, oldCollName,           \* locals of drillDown
    metadataObject,            \* local of drillDown
    idxLeft,                   \* metadata index definitions still to create
    _curns, _curdb, _curcoll,
    _users,
    _opmatcher,
    _oplogLimitTS,
    _oplogEntrySkips, _oplogEntryApplies,
    tsOptime,                  \* local of doRun: newest oplog entry of the destination
    oplogLimit,                \* --oplogLimit as given on the command line
    docs,                      \* destination: namespace -> identifiers it holds
    issued,                    \* requests sent to the destination by the last step
    layoutViolation,           \* the "root directory must be a dump of ..." error was printed
    lastIndexErr,              \* getLastErrorDetailed answer of the last createIndex
    unitPre,                   \* identifiers in the destination namespace when the unit began
    fileIds,                   \* identifiers of the records read from the unit's file so far
    nRead,                     \* records read from the file being processed
    stages,                    \* pipeline stages the current unit has entered
    oplogSeen,                 \* oplog entries read so far
    applied,                   \* oplog entries submitted with applyOps so far
    ineligible,                \* the ReplayIneligible condition the inputs read by doRun meet
    run,                       \* 0: the only invocation; 1, 2: first and second of two
    firstDocs,                 \* the destination as the first of two invocations left it
    seen,                      \* the records the first of two invocations read from the file
    logged,                    \* getLastError errors and option warnings the last step wrote to toolError()
    optionsCall,               \* createCollectionWithOptions in the last step: its argument, the entry it found
    unacked                    \* a write was sent on the connection and getLastError not called since

vars == << toolGlobalParams, mongoRestoreGlobalParams, root, pc, status, stack, path,
           ns, oldCollName, metadataObject, idxLeft, _curns, _curdb, _curcoll, _users,
           _opmatcher, _oplogLimitTS, _oplogEntrySkips, _oplogEntryApplies, tsOptime,
           oplogLimit,
           docs, issued, layoutViolation, lastIndexErr, unitPre, fileIds, nRead,
           stages, oplogSeen, applied, ineligible, run, firstDocs, seen, logged, optionsCall, unacked >>

\* groups for UNCHANGED
optVars   == << toolGlobalParams, mongoRestoreGlobalParams, root >>
walkVars  == << stack, path, ns, oldCollName >>
unitVars  == << metadataObject, idxLeft, unitPre, fileIds, nRead, stages >>
ctxVars   == << _curns, _curdb, _curcoll >>
oplogVars == << _opmatcher, _oplogLimitTS, tsOptime, oplogLimit >>
countVars == << _oplogEntrySkips, _oplogEntryApplies, oplogSeen, applied >>
againVars == << run, firstDocs, seen >>

use_db   == toolGlobalParams.db # <<>>
use_coll == toolGlobalParams.coll # <<>>
\* a doRun that passed false for oplogReplayLimit
oplogReplayLimit_Off == FALSE

\* the fourth argument doRun passes to drillDown
oplogReplayLimit == _oplogLimitTS # NULL

NoPath == [name |-> <<>>, dir |-> FALSE, parent |-> <<>>, sibs |-> {}, top |-> FALSE,
           kids |-> <<>>]

\* BSONObj(): neither "options" nor "indexes"
NoMetadata == [options |-> FALSE, hasIndexes |-> FALSE, indexes |-> 0]

\* Restore::Restore names neither counter in its initialiser list: both are
\* indeterminate (<<>>) until the first read, which may see any value.
Indeterminate == <<>>
GarbageInts == {0, 1}

\* the tool's own state when main() enters doRun
Start ==
    /\ pc = "doRun"
    /\ status = "running"
    /\ stack = <<>>
    /\ path = NoPath
    /\ ns = <<>>
    /\ oldCollName = <<>>
    /\ metadataObject = NoMetadata
    /\ idxLeft = 0
    /\ _curns = <<>>
    /\ _curdb = <<>>
    /\ _curcoll = <<>>
    /\ _users = {}
    /\ _opmatcher = NULL
    /\ _oplogLimitTS = NULL
    /\ _oplogEntrySkips = Indeterminate
    /\ _oplogEntryApplies = Indeterminate
    /\ tsOptime = NullOpTime
    /\ oplogLimit = << >>
    /\ issued = << >>
    /\ layoutViolation = FALSE
    /\ lastIndexErr = "none"
    /\ unitPre = {}
    /\ fileIds = {}
    /\ nRead = 0
    /\ stages = << >>
    /\ oplogSeen = << >>
    /\ applied = << >>
    /\ ineligible = "none"
    /\ logged = << >>
    /\ optionsCall = << >>
    /\ unacked = FALSE

\* the command line, the dump and the tool
Options ==
    [drop : BOOLEAN, restoreOptions : BOOLEAN, restoreIndexes : BOOLEAN,
     oplogReplay : BOOLEAN, w : {0, 1, 2}]

\* one invocation; what the destination holds is read when the code asks for it
Init ==
    /\ toolGlobalParams \in [db : {<<>>, <<"x">>}, coll : {<<>>, <<"c">>}]
    /\ mongoRestoreGlobalParams \in Options
    /\ root \in RootDirs \cup RootFiles
    /\ Start
    /\ docs = << >>
    /\ run = 0
    /\ firstDocs = << >>
    /\ seen = << >>

\* two invocations in succession with the same command line on a dump that is
\* one file
InitTwice ==
    /\ toolGlobalParams \in [db : {<<>>, <<"x">>}, coll : {<<>>, <<"c">>}]
    /\ mongoRestoreGlobalParams \in { o \in Options : ~o.oplogReplay }
    /\ root \in RootFiles
    /\ Start
    /\ docs = << >>
    /\ run = 1
    /\ firstDocs = << >>
    /\ seen = << >>

\* ------------------------------------------------------------------ helpers
Op(o, n) == [op |-> o, ns |-> n]

\* the requests that write documents: conn().insert, update, remove and the
\* applyOps command
WriteRequests == { "insert", "update", "remove", "applyOps" }

\* whether a write is without its getLastError after the requests ops, given
\* whether one was before them
Unacked(before, ops) ==
    LET last == { k \in 1..Len(ops) :
                    /\ ops[k].op \in WriteRequests \cup {"getLastError"}
                    /\ \A j \in (k + 1)..Len(ops) :
                          ops[j].op \notin WriteRequests \cup {"getLastError"} }
    IN  IF last = {} THEN before
        ELSE \E k \in last : ops[k].op \in WriteRequests

\* the process ends: nothing further runs
Ended(how) == status' = how /\ pc' = "end"

exists(r, leaf) == r.dir /\ leaf \in Names(r.kids)

SYSTEM_INDEXES == <<"system", ".", "indexes">>
METADATA_JSON  == <<".", "metadata", ".", "json">>

\* the argument of the top-level call drillDown(root, ..., true)
RootPath == [name |-> root.name, dir |-> root.dir, parent |-> root.parent,
             sibs |-> root.sibs, top |-> TRUE, kids |-> root.kids]

\* ------------------------------------------------------------------- doRun
\* doRun up to the oplog block: isMaster, and no full restore through mongos
DoRun ==
    /\ pc = "doRun" /\ status = "running"
    /\ \E master \in BOOLEAN, mongos \in BOOLEAN :
         IF ~master \/ (mongos /\ ~use_db /\ exists(root, CONFIG))
         THEN /\ Ended("return -1")
              /\ path' = path
         ELSE /\ status' = status
              /\ IF mongoRestoreGlobalParams.oplogReplay
                 THEN pc' = "oplogReplay" /\ path' = path
                 ELSE pc' = "drillDown" /\ path' = RootPath
    /\ issued' = << Op("isMaster", <<"admin">>) >>
    /\ logged' = << >>
    /\ optionsCall' = << >>
    /\ unacked' = Unacked(unacked, issued')
    /\ UNCHANGED << optVars, ineligible, againVars, stack, ns, oldCollName, unitVars, ctxVars, _users,
                    oplogVars, countVars, docs, layoutViolation, lastIndexErr >>

\* the ineligibility test on the destination's newest oplog entry
LimitNotNewer(t, limit) == OpGreater(t, limit)

\* which of the conditions that doRun's oplog block exists to reject holds of
\* what it reads, in the order it reads it; latest is NullOpTime when
\* local.oplog.rs is empty.  "none": the replay is eligible.
Ineligible(given, buildinfo, latest) ==
    IF use_db THEN "database override"
    ELSE IF ~exists(root, OPLOG_BSON) THEN "log missing"
    ELSE IF buildinfo = "failed" THEN "buildinfo failed"
    ELSE IF buildinfo = "old" THEN "version too old"
    ELSE IF given = << >> THEN "none"
    ELSE IF ~CanCast(LimitSecs(given)) \/ ~CanCast(LimitInc(given)) THEN "malformed limit"
    ELSE IF /\ latest # NullOpTime
            /\ ~OpLess(latest, MakeOpTime(lexical_cast(LimitSecs(given)),
                                          lexical_cast(LimitInc(given))))
    THEN "limit not newer"
    ELSE "none"

\* the block "if (mongoRestoreGlobalParams.oplogReplay)" of doRun.  --oplogLimit
\* is read here and nowhere else, so its value is chosen here; latest is the ts
\* of the newest entry of local.oplog.rs, NullOpTime when the cursor is empty.
OplogReplaySetup ==
    /\ pc = "oplogReplay" /\ status = "running"
    /\ \E given \in LimitStrings, buildinfo \in {"failed", "old", "ok"},
          latest \in TS \cup {NullOpTime} :
         /\ ineligible' = Ineligible(given, buildinfo, latest)
         /\ LET secs == LimitSecs(given)
                inc  == LimitInc(given)
                limit == MakeOpTime(lexical_cast(secs), lexical_cast(inc))
                proceed == pc' = "drillDown" /\ path' = RootPath /\ status' = status
                fail == Ended("return -1") /\ path' = path
            IN  IF use_db \/ ~exists(root, OPLOG_BSON) \/ buildinfo # "ok"
                THEN /\ fail
                     /\ issued' = IF use_db \/ ~exists(root, OPLOG_BSON) THEN << >>
                                  ELSE << Op("buildinfo", <<"admin">>) >>
                     /\ UNCHANGED oplogVars
                ELSE IF given = << >>
                THEN /\ proceed
                     /\ issued' = << Op("buildinfo", <<"admin">>) >>
                     /\ UNCHANGED oplogVars
                ELSE IF ~CanCast(secs) \/ ~CanCast(inc)
                THEN /\ fail
                     /\ issued' = << Op("buildinfo", <<"admin">>) >>
                     /\ UNCHANGED oplogVars
                ELSE /\ _oplogLimitTS' = << limit >>
                     /\ oplogLimit' = given
                     /\ issued' = << Op("buildinfo", <<"admin">>),
                                     Op("query", <<"local", ".", "oplog", ".", "rs">>) >>
                     /\ tsOptime' = latest
                     /\ IF latest # NullOpTime /\ LimitNotNewer(latest, limit)
                        THEN fail /\ _opmatcher' = _opmatcher
                        ELSE proceed /\ _opmatcher' = << TsRestrict(latest, limit) >>
    /\ logged' = << >>
    /\ optionsCall' = << >>
    /\ unacked' = Unacked(unacked, issued')
    /\ UNCHANGED << optVars, againVars, stack, ns, oldCollName, unitVars, ctxVars, _users,
                    countVars, docs, layoutViolation, lastIndexErr >>

\* --------------------------------------------------------------- drillDown
\* a drillDown that removed the retained users only after the metadata indexes
Pipeline_StatedOrder ==
    << "DropOrSnapshot", "metadata", "CreateCollection", "Load",
       "PostIndexes", "Reconcile", "Done" >>

\* the statements of drillDown for a data file, in the order they stand in it
Pipeline == << "DropOrSnapshot", "metadata", "CreateCollection", "Load",
               "Reconcile", "PostIndexes", "Done" >>

StageAfter(st) ==
    Pipeline[(CHOOSE k \in 1..Len(Pipeline) : Pipeline[k] = st) + 1]

\* return from a drillDown call: to the directory loop of the caller, or to doRun;
\* the arguments and locals of the call are gone
ReturnTo(stk) ==
    /\ pc' = IF stk = << >> THEN "afterDrillDown" ELSE "dir"
    /\ path' = NoPath
    /\ ns' = << >>
    /\ oldCollName' = << >>
    /\ metadataObject' = NoMetadata
    /\ idxLeft' = 0
    /\ unitPre' = {}
    /\ fileIds' = {}
    /\ nRead' = 0

hidden(leaf) == Len(leaf) > 0 /\ leaf[1] = "." /\ leaf # <<".">>

\* database part of the namespace of a data file
NsDb(p) ==
    IF use_db THEN toolGlobalParams.db
    ELSE IF p.parent = << >> THEN <<"test">> ELSE p.parent

OldCollName(leaf) == Before(leaf, find_last_of(leaf, "."))

NsOf(p) ==
    NsDb(p) \o <<".">> \o
      (IF use_coll THEN toolGlobalParams.coll ELSE OldCollName(p.name))

Frame(p, listing) ==
    [rest |-> listing, names |-> Names(listing), name |-> p.name,
     indexes |-> << >>, json_metadata |-> FALSE, top_level |-> p.top, fin |-> FALSE]

\* drillDown from its entry to "going into namespace": the hidden-name test, the
\* directory case (the loop itself is DirNext/DirEnd), the file-kind tests, the
\* namespace and the oplogLimit exit.
DrillDown ==
    /\ pc = "drillDown" /\ status = "running"
    /\ \E below \in Listings(SubPool) :
         LET listing == IF path.top THEN path.kids ELSE below
             leaf == path.name
         IN  IF hidden(leaf)
             THEN /\ ReturnTo(stack)
                  /\ UNCHANGED << status, stack >>
             ELSE IF path.dir
             THEN /\ stack' = << Frame(path, listing) >> \o stack
                  /\ pc' = "dir"
                  /\ UNCHANGED << status, path, ns, oldCollName, metadataObject, idxLeft,
                                  unitPre, fileIds, nRead >>
             ELSE IF endsWith(leaf, METADATA_JSON)
                     \/ ~(endsWith(leaf, <<".", "bson">>) \/ endsWith(leaf, <<".", "bin">>))
                     \/ leaf = PROFILE_BSON
             THEN /\ ReturnTo(stack)
                  /\ UNCHANGED << status, stack >>
             ELSE /\ ns' = NsOf(path)
                  /\ oldCollName' = OldCollName(leaf)
                  /\ IF oplogReplayLimit
                     THEN Ended("exit(EXIT_FAILURE)")
                     ELSE pc' = Pipeline[1] /\ status' = status
                  /\ UNCHANGED << stack, path, metadataObject, idxLeft, unitPre, fileIds,
                                  nRead >>
    /\ stages' = IF pc' = Pipeline[1] THEN << "Init" >> ELSE << >>
    /\ issued' = << >>
    /\ logged' = << >>
    /\ optionsCall' = << >>
    /\ unacked' = Unacked(unacked, issued')
    /\ UNCHANGED << optVars, ineligible, againVars, ctxVars, _users, oplogVars, countVars, docs,
                    layoutViolation, lastIndexErr >>

\* a loop that did not set system.indexes.bson aside
DirDecision_NoDefer(f, p, atEnd) ==
    IF use_db /\ p.dir THEN "violation"
    ELSE IF use_coll /\ (p.dir \/ ~atEnd) THEN "violation"
    ELSE IF f.top_level /\ ~use_db /\ p.name = OPLOG_BSON THEN "skip"
    ELSE "descend"

\* a loop without the --db test
DirDecision_NoDbCheck(f, p, atEnd) ==
    IF use_coll /\ (p.dir \/ ~atEnd) THEN "violation"
    ELSE IF f.top_level /\ ~use_db /\ p.name = OPLOG_BSON THEN "skip"
    ELSE IF p.name = INDEXES_BSON THEN "defer"
    ELSE "descend"

\* a loop that handed the top-level oplog.bson to drillDown like any data file
DirDecision_NoOplogSkip(f, p, atEnd) ==
    IF use_db /\ p.dir THEN "violation"
    ELSE IF use_coll /\ (p.dir \/ ~atEnd) THEN "violation"
    ELSE IF p.name = INDEXES_BSON THEN "defer"
    ELSE "descend"

\* a loop that skipped the top-level oplog.bson under --db only
DirDecision_OplogSkipUnderDb(f, p, atEnd) ==
    IF use_db /\ p.dir THEN "violation"
    ELSE IF use_coll /\ (p.dir \/ ~atEnd) THEN "violation"
    ELSE IF f.top_level /\ use_db /\ p.name = OPLOG_BSON THEN "skip"
    ELSE IF p.name = INDEXES_BSON THEN "defer"
    ELSE "descend"

\* what one turn of the directory loop does with the entry p it took
\*   "violation": the use_db / use_coll error and return
\*   "skip":      continue (the top-level oplog.bson)
\*   "defer":     indexes = p
\*   "descend":   drillDown(p, ...)
DirDecision(f, p, atEnd) ==
    IF use_db /\ p.dir THEN "violation"
    ELSE IF use_coll /\ (p.dir \/ ~atEnd) THEN "violation"
    ELSE IF f.top_level /\ ~use_db /\ p.name = OPLOG_BSON THEN "skip"
    ELSE IF p.name = INDEXES_BSON THEN "defer"
    ELSE "descend"

ChildPath(f, p) ==
    [name |-> p.name, dir |-> p.dir, parent |-> f.name, sibs |-> f.names,
     top |-> FALSE, kids |-> << >>]

\* one turn of "while ( i != end )"
DirNext ==
    /\ pc = "dir" /\ status = "running"
    /\ stack # << >>
    /\ Head(stack).rest # << >>
    /\ LET f == Head(stack)
           p == Head(f.rest)
           rest == Tail(f.rest)
           d == DirDecision(f, p, rest = << >>)
           g == [f EXCEPT !.rest = rest,
                          !.json_metadata = @ \/ endsWith(p.name, METADATA_JSON),
                          !.indexes = IF d = "defer" THEN << p >> ELSE @]
       IN  CASE d = "violation" ->
                  /\ layoutViolation' = TRUE
                  /\ stack' = Tail(stack)
                  /\ ReturnTo(Tail(stack))
             [] d \in {"skip", "defer"} ->
                  /\ stack' = << g >> \o Tail(stack)
                  /\ pc' = "dir"
                  /\ UNCHANGED << layoutViolation, path, ns, oldCollName, metadataObject,
                                  idxLeft, unitPre, fileIds, nRead >>
             [] d = "descend" ->
                  /\ stack' = << g >> \o Tail(stack)
                  /\ path' = ChildPath(f, p)
                  /\ pc' = "drillDown"
                  /\ UNCHANGED << layoutViolation, ns, oldCollName, metadataObject,
                                  idxLeft, unitPre, fileIds, nRead >>
    /\ stages' = << >>
    /\ issued' = << >>
    /\ logged' = << >>
    /\ optionsCall' = << >>
    /\ unacked' = Unacked(unacked, issued')
    /\ UNCHANGED << optVars, ineligible, againVars, status, ctxVars, _users, oplogVars, countVars, docs,
                    lastIndexErr >>

\* whether the buffered index file is visited once the loop is over
VisitIndexes(f) == f.indexes # << >> /\ ~f.json_metadata

\* after the loop: the deferred system.indexes.bson, then return
DirEnd ==
    /\ pc = "dir" /\ status = "running"
    /\ stack # << >>
    /\ Head(stack).rest = << >>
    /\ LET f == Head(stack)
       IN  IF ~f.fin /\ VisitIndexes(f)
           THEN /\ stack' = << [f EXCEPT !.fin = TRUE] >> \o Tail(stack)
                /\ path' = ChildPath(f, f.indexes[1])
                /\ pc' = "drillDown"
                /\ UNCHANGED << ns, oldCollName, metadataObject, idxLeft, unitPre,
                                fileIds, nRead >>
           ELSE /\ stack' = Tail(stack)
                /\ ReturnTo(Tail(stack))
    /\ stages' = << >>
    /\ issued' = << >>
    /\ logged' = << >>
    /\ optionsCall' = << >>
    /\ unacked' = Unacked(unacked, issued')
    /\ UNCHANGED << optVars, ineligible, againVars, status, ctxVars, _users, oplogVars, countVars, docs,
                    layoutViolation, lastIndexErr >>

\* ------------------------------------------------- the per-unit pipeline
Content(n, fresh) == IF n \in DOMAIN docs THEN docs[n] ELSE fresh

IdOrder == << "a", "b" >>
InOrder(S) == SelectSeq(IdOrder, LAMBDA u : u \in S)

\* a test that took every system.* file for the privilege collection's
IsUsersFile_SystemFile(leaf) == Len(leaf) > 0 /\ leaf[1] = "system"

\* whether the unit's file is the privilege collection's, as drillDown tests it
IsUsersFile(leaf) == leaf = USERS_BSON

\* "if (mongoRestoreGlobalParams.drop)": drop the collection, or for
\* system.users.bson remember the users the destination holds.  before is what
\* the destination namespace holds when it is not yet known to the model.
DropOrSnapshot ==
    /\ pc = "DropOrSnapshot" /\ status = "running"
    /\ \E before \in SUBSET IdsOf(path.name) :
         LET held == Content(ns, before)
         IN  /\ unitPre' = held
             /\ IF mongoRestoreGlobalParams.drop
                THEN /\ stages' = Append(stages, "DropOrSnapshot")
                     /\ IF ~IsUsersFile(path.name)
                        THEN /\ docs' = (ns :> {}) @@ docs
                             /\ issued' = << Op("dropCollection", ns) >>
                             /\ _users' = _users
                        ELSE /\ docs' = (ns :> held) @@ docs
                             /\ issued' = << Op("query", ns) >>
                             /\ _users' = _users \cup held
                ELSE /\ docs' = (ns :> held) @@ docs
                     /\ issued' = << >>
                     /\ UNCHANGED << stages, _users >>
    /\ pc' = StageAfter("DropOrSnapshot")
    /\ logged' = << >>
    /\ optionsCall' = << >>
    /\ unacked' = Unacked(unacked, issued')
    /\ UNCHANGED << optVars, ineligible, againVars, status, walkVars, metadataObject, idxLeft, fileIds, nRead,
                    ctxVars, oplogVars, countVars, layoutViolation, lastIndexErr >>

MetadataObjects ==
    { m \in [options : BOOLEAN, hasIndexes : BOOLEAN, indexes : 0..1] :
        ~m.hasIndexes => m.indexes = 0 }

\* the metadata file, then _curns/_curdb/_curcoll, then the "without dropping"
\* warning
LoadMetadata ==
    /\ pc = "metadata" /\ status = "running"
    /\ \E parsed \in MetadataObjects, wellFormed \in BOOLEAN :
         LET wanted == mongoRestoreGlobalParams.restoreOptions
                         \/ mongoRestoreGlobalParams.restoreIndexes
             there == (oldCollName \o METADATA_JSON) \in path.sibs
         IN  IF wanted /\ there /\ ~wellFormed
             THEN /\ Ended("exception")
                  /\ UNCHANGED << metadataObject, ctxVars >>
                  /\ issued' = << >>
             ELSE /\ metadataObject' = IF wanted /\ there THEN parsed ELSE NoMetadata
                  /\ _curns' = ns
                  /\ _curdb' = nsToDatabase(ns)
                  /\ _curcoll' = nsToCollectionSubstring(ns)
                  /\ issued' = IF mongoRestoreGlobalParams.drop THEN << >>
                               ELSE << Op("query", nsToDatabase(ns)
                                                    \o <<".", "system", ".", "namespaces">>) >>
                  /\ pc' = StageAfter("metadata")
                  /\ status' = status
    /\ logged' = << >>
    /\ optionsCall' = << >>
    /\ unacked' = Unacked(unacked, issued')
    /\ UNCHANGED << optVars, ineligible, againVars, walkVars, idxLeft, unitPre, fileIds, nRead, stages, _users,
                    oplogVars, countVars, docs, layoutViolation, lastIndexErr >>

\* createCollectionWithOptions when options are restored and the metadata has
\* them; then processFile(root) starts
\* option documents: sequences of fields; an element of type Undefined is a
\* field whose value is Undefined
Undefined == <<"undefined">>
Field(n, v) == [name |-> n, val |-> v]
OptionalField(n, vals) == { << >> } \cup { << Field(n, v) >> : v \in vals }

\* the "options" object of a metadata file
MetadataOptions ==
    { c \o k \o z : c \in OptionalField("create", { <<"old">> }),
                    k \in OptionalField("capped", { <<"1">> }),
                    z \in OptionalField("size", { Undefined }) }

\* the system.namespaces entry of an existing namespace: without an "options"
\* field, or with one
NamespaceEntries(coll) ==
    { [options |-> << >>] }
      \cup { [options |-> << c \o k >>] :
               c \in OptionalField("create", { coll, <<"old">> }),
               k \in OptionalField("capped", { <<"1">>, <<"2">> }) }

hasField(obj, n) == \E k \in 1..Len(obj) : obj[k].name = n
\* obj[n], for a field obj has
getField(obj, n) ==
    obj[CHOOSE k \in 1..Len(obj) :
          obj[k].name = n /\ \A j \in 1..(k - 1) : obj[j].name # n]
nFields(obj) == Len(obj)

\* the loop of optionsSame from the k-th element of obj1 on
RECURSIVE optionsSameFrom(_, _, _, _)
optionsSameFrom(obj1, obj2, k, nfields) ==
    IF k > Len(obj1) THEN nfields = nFields(obj2)
    ELSE LET e == obj1[k]
         IN  IF ~hasField(obj2, e.name)
             THEN IF e.name = "create"
                  THEN optionsSameFrom(obj1, obj2, k + 1, nfields)
                  ELSE FALSE
             ELSE IF e # getField(obj2, e.name)
             THEN FALSE
             ELSE optionsSameFrom(obj1, obj2, k + 1, nfields + 1)

optionsSame(obj1, obj2) == optionsSameFrom(obj1, obj2, 1, 0)

\* obj rebuilt as a command object for the "create" command
CreateCommand(curcoll, obj) ==
    << Field("create", curcoll) >>
      \o SelectSeq(obj, LAMBDA e : e.name # "create" /\ e.val # Undefined)

OPTIONS_WARNING == << "WARNING: collection exists with different options", "" >>

CreateCollection ==
    /\ pc = "CreateCollection" /\ status = "running"
    /\ LET dropped == mongoRestoreGlobalParams.drop /\ ~IsUsersFile(path.name)
           sysns == Op("query", _curdb \o <<".", "system", ".", "namespaces">>)
       IN  IF mongoRestoreGlobalParams.restoreOptions /\ metadataObject.options
           THEN \E options \in MetadataOptions :
                  LET obj == CreateCommand(_curcoll, options)
                      create == [op |-> "create", ns |-> _curns, cmd |-> obj]
                  IN  \/ /\ ~dropped
                         /\ \E nsObj \in NamespaceEntries(_curcoll) :
                              /\ logged' = IF nsObj.options = << >>
                                               \/ ~optionsSame(obj, nsObj.options[1])
                                            THEN << OPTIONS_WARNING >> ELSE << >>
                              /\ optionsCall' = << [obj |-> options, nsObj |-> << nsObj >>] >>
                         /\ issued' = << sysns >>
                         /\ stages' = stages \o << "CreateCollection", "Load" >>
                         /\ pc' = StageAfter("CreateCollection") /\ status' = status
                      \/ /\ dropped \/ docs[ns] = {}
                         /\ issued' = << sysns, create >>
                         /\ logged' = << >>
                         /\ optionsCall' = << [obj |-> options, nsObj |-> << >>] >>
                         /\ \/ /\ stages' = stages \o << "CreateCollection", "Load" >>
                               /\ pc' = StageAfter("CreateCollection") /\ status' = status
                            \/ /\ stages' = Append(stages, "CreateCollection")
                               /\ Ended("uasserted")
           ELSE /\ issued' = << >>
                /\ logged' = << >>
                /\ optionsCall' = << >>
                /\ stages' = Append(stages, "Load")
                /\ pc' = StageAfter("CreateCollection") /\ status' = status
    /\ unacked' = Unacked(unacked, issued')
    /\ UNCHANGED << optVars, ineligible, againVars, walkVars, metadataObject, idxLeft, unitPre, fileIds, nRead,
                    ctxVars, _users, oplogVars, countVars, docs, layoutViolation,
                    lastIndexErr >>

\* ---------------------------------------------------------- createIndex
IndexErrs == {"ok", "norepl", "other", "notok"}

\* a createIndex whose abort() stood in the else branch only
IndexOutcome_NoreplGoesOn(e, w) ==
    IF e = "other" \/ (e = "norepl" /\ w <= 1) THEN "abort()"
    ELSE IF e = "notok" THEN "exception"
    ELSE "running"

\* how createIndex leaves the process for a getLastErrorDetailed answer e:
\* an "err" (norepl or any other) reaches ::abort(), a reply that is not ok
\* trips the massert
IndexOutcome(e, w) ==
    IF e \in {"norepl", "other"} THEN "abort()"
    ELSE IF e = "notok" THEN "exception"
    ELSE "running"

\* createIndex(obj, keepCollName): the insert, getLastErrorDetailed, the outcome.
\* next is where the caller goes on when createIndex returns.
createIndex(e, next) ==
    /\ issued' = << Op("insert", _curdb \o <<".">> \o SYSTEM_INDEXES),
                    Op("getLastError", _curdb) >>
    /\ lastIndexErr' = e
    /\ status' = IndexOutcome(e, mongoRestoreGlobalParams.w)
    /\ pc' = IF IndexOutcome(e, mongoRestoreGlobalParams.w) = "running" THEN next ELSE "end"

\* ------------------------------------------------------------ gotObject
\* reading an indeterminate counter yields some value g
Value(counter, g) == IF counter = Indeterminate THEN g ELSE counter[1]

\* which branch of gotObject a record takes
Branch(obj) ==
    IF _curns = OPLOG_SENTINEL THEN "oplog"
    ELSE IF nsToCollectionSubstring(_curns) = SYSTEM_INDEXES THEN "index"
    ELSE IF /\ mongoRestoreGlobalParams.drop
            /\ nsToCollectionSubstring(_curns) = <<".", "system", ".", "users">>
            /\ obj.user \in _users
    THEN "user"
    ELSE "insert"

\* the answers of getLastError: no error, or an error text
LastErrors == {"", "err"}

\* gotObject after an applyOps or an insert, otherwise as it is, but
\* an error of the acknowledgement ends the process
Acknowledge_Fatal(prefix, err) ==
    IF mongoRestoreGlobalParams.w > 0 /\ err # ""
    THEN /\ logged' = << <<prefix, err>> >>
         /\ Ended("abort()")
    ELSE /\ logged' = << >>
         /\ UNCHANGED << pc, status >>

\* gotObject waits for the write to reach w nodes; an error is written to
\* toolError() and the function returns
Acknowledge(prefix, err) ==
    IF mongoRestoreGlobalParams.w > 0 /\ err # ""
    THEN /\ logged' = << <<prefix, err>> >>
         /\ UNCHANGED << pc, status >>
    ELSE /\ logged' = << >>
         /\ UNCHANGED << pc, status >>

\* processFile hands the next record of the file to gotObject
GotObject ==
    /\ pc \in {"Load", "replay"} /\ status = "running"
    /\ nRead < MaxRecs
    /\ \E obj \in (IF pc = "replay" THEN OplogRecords ELSE DataRecords(path.name)) :
         /\ (run = 2 /\ pc = "Load") => (nRead < Len(seen) /\ obj = seen[nRead + 1])
         /\ seen' = IF run = 1 /\ pc = "Load" THEN Append(seen, obj) ELSE seen
         /\ nRead' = nRead + 1
         /\ CASE Branch(obj) = "oplog" ->
                   /\ oplogSeen' = Append(oplogSeen, obj)
                   /\ IF obj.op = "n"
                      THEN /\ issued' = << >>
                           /\ logged' = << >>
                           /\ UNCHANGED << pc, status, _oplogEntrySkips, _oplogEntryApplies, applied >>
                      ELSE IF _opmatcher # NULL /\ ~matches(_opmatcher[1], obj)
                      THEN /\ \E g \in GarbageInts :
                                _oplogEntrySkips' = << Value(_oplogEntrySkips, g) + 1 >>
                           /\ issued' = << >>
                           /\ logged' = << >>
                           /\ UNCHANGED << pc, status, _oplogEntryApplies, applied >>
                      ELSE /\ \E g \in GarbageInts :
                                _oplogEntryApplies' = << Value(_oplogEntryApplies, g) + 1 >>
                           /\ applied' = Append(applied, obj)
                           /\ issued' = << Op("applyOps", <<"db">>) >>
                                          \o (IF mongoRestoreGlobalParams.w > 0
                                              THEN << Op("getLastError", <<"db">>) >>
                                              ELSE << >>)
                           /\ \E err \in LastErrors :
                                Acknowledge("Error while replaying oplog: ", err)
                           /\ UNCHANGED _oplogEntrySkips
                   /\ UNCHANGED << docs, _users, fileIds, lastIndexErr >>
              [] Branch(obj) = "index" ->
                   /\ \E e \in IndexErrs : createIndex(e, pc)
                   /\ fileIds' = fileIds \cup {obj.user}
                   /\ logged' = << >>
                   /\ UNCHANGED << docs, _users, countVars >>
              [] Branch(obj) = "user" ->
                   /\ issued' = << Op("update", _curns) >>
                   /\ _users' = _users \ {obj.user}
                   /\ fileIds' = fileIds \cup {obj.user}
                   /\ logged' = << >>
                   /\ UNCHANGED << pc, status, docs, countVars, lastIndexErr >>
              [] Branch(obj) = "insert" ->
                   /\ docs' = [docs EXCEPT ![_curns] = @ \cup {obj.user}]
                   /\ issued' = << Op("insert", _curns) >>
                                  \o (IF mongoRestoreGlobalParams.w > 0
                                      THEN << Op("getLastError", _curdb) >>
                                      ELSE << >>)
                   /\ fileIds' = fileIds \cup {obj.user}
                   /\ \E err \in LastErrors : Acknowledge("", err)
                   /\ UNCHANGED << _users, countVars, lastIndexErr >>
    /\ optionsCall' = << >>
    /\ unacked' = Unacked(unacked, issued')
    /\ UNCHANGED << optVars, ineligible, run, firstDocs, walkVars, metadataObject, idxLeft,
                    unitPre, stages, ctxVars, oplogVars, layoutViolation >>

\* the data file is exhausted: processFile(root) returns
LoadEnd ==
    /\ pc = "Load" /\ status = "running"
    /\ run = 2 => nRead = Len(seen)
    /\ pc' = StageAfter("Load")
    /\ issued' = << >>
    /\ logged' = << >>
    /\ optionsCall' = << >>
    /\ unacked' = Unacked(unacked, issued')
    /\ UNCHANGED << optVars, ineligible, againVars, status, walkVars, unitVars, ctxVars, _users, oplogVars,
                    countVars, docs, layoutViolation, lastIndexErr >>

\* "Delete any users that used to exist but weren't in the dump file"
Reconcile ==
    /\ pc = "Reconcile" /\ status = "running"
    /\ IF mongoRestoreGlobalParams.drop /\ IsUsersFile(path.name)
       THEN /\ docs' = [docs EXCEPT ![ns] = @ \ _users]
            /\ issued' = [k \in 1..Len(InOrder(_users)) |-> Op("remove", ns)]
            /\ _users' = {}
            /\ stages' = Append(stages, "Reconcile")
       ELSE /\ issued' = << >>
            /\ UNCHANGED << docs, _users, stages >>
    /\ pc' = StageAfter("Reconcile")
    /\ logged' = << >>
    /\ optionsCall' = << >>
    /\ unacked' = Unacked(unacked, issued')
    /\ UNCHANGED << optVars, ineligible, againVars, status, walkVars, metadataObject, idxLeft, unitPre, fileIds,
                    nRead, ctxVars, oplogVars, countVars, layoutViolation, lastIndexErr >>

\* "if (restoreIndexes && metadataObject.hasField("indexes"))": the loop begins
PostIndexes ==
    /\ pc = "PostIndexes" /\ status = "running"
    /\ IF mongoRestoreGlobalParams.restoreIndexes /\ metadataObject.hasIndexes
       THEN /\ idxLeft' = metadataObject.indexes
            /\ stages' = Append(stages, "PostIndexes")
       ELSE /\ idxLeft' = 0
            /\ stages' = stages
    /\ pc' = IF idxLeft' > 0 THEN "indexes" ELSE StageAfter("PostIndexes")
    /\ issued' = << >>
    /\ logged' = << >>
    /\ optionsCall' = << >>
    /\ unacked' = Unacked(unacked, issued')
    /\ UNCHANGED << optVars, ineligible, againVars, status, walkVars, metadataObject, unitPre, fileIds, nRead,
                    ctxVars, _users, oplogVars, countVars, docs, layoutViolation,
                    lastIndexErr >>

\* createIndex((*it).Obj(), false) for the next metadata index
PostIndex ==
    /\ pc = "indexes" /\ status = "running"
    /\ idxLeft > 0
    /\ \E e \in IndexErrs :
         createIndex(e, IF idxLeft > 1 THEN "indexes" ELSE StageAfter("PostIndexes"))
    /\ idxLeft' = idxLeft - 1
    /\ logged' = << >>
    /\ optionsCall' = << >>
    /\ unacked' = Unacked(unacked, issued')
    /\ UNCHANGED << optVars, ineligible, againVars, walkVars, metadataObject, unitPre, fileIds, nRead, stages,
                    ctxVars, _users, oplogVars, countVars, docs, layoutViolation >>

\* the end of drillDown for a data file
UnitDone ==
    /\ pc = "Done" /\ status = "running"
    /\ stages' = Append(stages, "Done")
    /\ ReturnTo(stack)
    /\ issued' = << >>
    /\ logged' = << >>
    /\ optionsCall' = << >>
    /\ unacked' = Unacked(unacked, issued')
    /\ UNCHANGED << optVars, ineligible, againVars, status, stack, ctxVars, _users, oplogVars, countVars, docs,
                    layoutViolation, lastIndexErr >>

\* ------------------------------------------------------ doRun, after the walk
\* getLastError, then either the oplog replay begins or doRun returns EXIT_CLEAN
AfterDrillDown ==
    /\ pc = "afterDrillDown" /\ status = "running"
    /\ issued' = << Op("getLastError",
                       IF use_db THEN toolGlobalParams.db ELSE <<"admin">>) >>
    /\ \E err \in LastErrors : logged' = IF err # "" THEN << <<"", err>> >> ELSE << >>
    /\ optionsCall' = << >>
    /\ IF mongoRestoreGlobalParams.oplogReplay
       THEN /\ _curns' = OPLOG_SENTINEL
            /\ pc' = "replay"
            /\ status' = status
       ELSE /\ Ended("EXIT_CLEAN")
            /\ UNCHANGED _curns
    /\ stages' = << >>
    /\ unacked' = Unacked(unacked, issued')
    /\ UNCHANGED << optVars, ineligible, againVars, walkVars, metadataObject, idxLeft, unitPre, fileIds, nRead,
                    _curdb, _curcoll, _users, oplogVars, countVars, docs,
                    layoutViolation, lastIndexErr >>

\* oplog.bson is exhausted: the tally is printed and doRun returns EXIT_CLEAN
ReplayEnd ==
    /\ pc = "replay" /\ status = "running"
    /\ \E g1 \in GarbageInts, g2 \in GarbageInts :
         /\ _oplogEntryApplies' = << Value(_oplogEntryApplies, g1) >>
         /\ _oplogEntrySkips' = << Value(_oplogEntrySkips, g2) >>
    /\ Ended("EXIT_CLEAN")
    /\ issued' = << >>
    /\ logged' = << >>
    /\ optionsCall' = << >>
    /\ unacked' = Unacked(unacked, issued')
    /\ UNCHANGED << optVars, ineligible, againVars, walkVars, unitVars, ctxVars, _users, oplogVars, oplogSeen,
                    applied, docs, layoutViolation, lastIndexErr >>

\* the same command line is run again on the same dump once the first
\* invocation has returned EXIT_CLEAN: a new process, the destination as it is
Rerun ==
    /\ run = 1 /\ pc = "end" /\ status = "EXIT_CLEAN"
    /\ run' = 2
    /\ firstDocs' = docs
    /\ pc' = "doRun"
    /\ status' = "running"
    /\ stack' = << >>
    /\ path' = NoPath
    /\ ns' = << >>
    /\ oldCollName' = << >>
    /\ metadataObject' = NoMetadata
    /\ idxLeft' = 0
    /\ _curns' = << >>
    /\ _curdb' = << >>
    /\ _curcoll' = << >>
    /\ _users' = {}
    /\ _opmatcher' = NULL
    /\ _oplogLimitTS' = NULL
    /\ _oplogEntrySkips' = Indeterminate
    /\ _oplogEntryApplies' = Indeterminate
    /\ tsOptime' = NullOpTime
    /\ oplogLimit' = << >>
    /\ issued' = << >>
    /\ layoutViolation' = FALSE
    /\ lastIndexErr' = "none"
    /\ unitPre' = {}
    /\ fileIds' = {}
    /\ nRead' = 0
    /\ stages' = << >>
    /\ oplogSeen' = << >>
    /\ applied' = << >>
    /\ ineligible' = "none"
    /\ logged' = << >>
    /\ optionsCall' = << >>
    /\ unacked' = FALSE
    /\ UNCHANGED << optVars, docs, seen >>

Next ==
    \/ DoRun
    \/ OplogReplaySetup
    \/ DrillDown
    \/ DirNext
    \/ DirEnd
    \/ DropOrSnapshot
    \/ LoadMetadata
    \/ CreateCollection
    \/ GotObject
    \/ LoadEnd
    \/ Reconcile
    \/ PostIndexes
    \/ PostIndex
    \/ UnitDone
    \/ AfterDrillDown
    \/ ReplayEnd

Spec == Init /\ [][Next]_vars

\* the steps of an invocation without --oplogReplay on a dump that is one file,
\* and the second invocation
NextTwice ==
    \/ DoRun
    \/ DrillDown
    \/ DropOrSnapshot
    \/ LoadMetadata
    \/ CreateCollection
    \/ GotObject
    \/ LoadEnd
    \/ Reconcile
    \/ PostIndexes
    \/ PostIndex
    \/ UnitDone
    \/ AfterDrillDown
    \/ Rerun

SpecTwice == InitTwice /\ [][NextTwice]_vars

\* ====================================================================
\* Properties
\* ====================================================================
UnitPcs == { "DropOrSnapshot", "metadata", "CreateCollection", "Load", "Reconcile",
             "PostIndexes", "indexes", "Done" }

drop == mongoRestoreGlobalParams.drop

\* the requests that write to the destination
WriteOps == { "dropCollection", "create", "insert", "update", "remove", "applyOps" }
Writes(ops) == { k \in 1..Len(ops) : ops[k].op \in WriteOps }

\* --------------------------------------------------------------------- C1
\* C1: under --drop, once the Load and Reconcile steps of a system.users.bson
\* unit are over, the destination namespace holds exactly the identifiers of
\* the records of the file, whatever it held before.
C1_ReconcileExact ==
    (/\ drop
     /\ IsUsersFile(path.name)
     /\ pc \in {"PostIndexes", "indexes", "Done"}
     /\ status = "running")
    => docs[ns] = fileIds

\* --------------------------------------------------------------------- C2
SpecRank(st) ==
    CASE st = "Init" -> 0 [] st = "DropOrSnapshot" -> 1 [] st = "CreateCollection" -> 2
      [] st = "Load" -> 3 [] st = "PostIndexes" -> 4 [] st = "Reconcile" -> 5
      [] st = "Done" -> 6

CodeRank(st) ==
    CASE st = "Init" -> 0 [] st = "DropOrSnapshot" -> 1 [] st = "CreateCollection" -> 2
      [] st = "Load" -> 3 [] st = "Reconcile" -> 4 [] st = "PostIndexes" -> 5
      [] st = "Done" -> 6

\* C2 as stated: the stages a unit enters occur in the order DropOrSnapshot,
\* CreateCollection, Load, PostIndexes, Reconcile, Done.
C2_StatedOrder ==
    \A i, j \in 1..Len(stages) : i < j => SpecRank(stages[i]) < SpecRank(stages[j])

\* C2 amended: the stages a unit enters occur in the order DropOrSnapshot,
\* CreateCollection, Load, Reconcile, PostIndexes, Done: the retained users are
\* removed before the metadata indexes are created.
C2_CodeOrder ==
    \A i, j \in 1..Len(stages) : i < j => CodeRank(stages[i]) < CodeRank(stages[j])

C2_Witness ==
    stages = << "Init", "DropOrSnapshot", "CreateCollection", "Load", "Reconcile",
                "PostIndexes", "Done" >>

\* --------------------------------------------------------------------- C3
\* C3 as stated: an "err" answer to the index insert ends the run, except
\* "norepl" with w > 1, after which the run goes on.
C3_NoreplContinues ==
    /\ (lastIndexErr = "other" => status = "abort()")
    /\ (lastIndexErr = "norepl" /\ mongoRestoreGlobalParams.w > 1 => status # "abort()")

\* C3 amended: every "err" answer to the index insert ends the run with
\* abort(), "norepl" with w > 1 included (only the message differs).
C3_IndexErrorFatal ==
    lastIndexErr \in {"norepl", "other"} => status = "abort()" /\ pc = "end"

C3_Witness ==
    /\ lastIndexErr = "norepl"
    /\ mongoRestoreGlobalParams.w > 1
    /\ status = "abort()"

\* --------------------------------------------------------------------- C4
\* C4: when a limit is given and the destination has a newest oplog entry, the
\* run goes past the oplog checks only if that entry is strictly older than
\* the limit (startExclusive < bound).
C4_StartBelowBound ==
    (/\ _oplogLimitTS # NULL
     /\ ~isNull(tsOptime)
     /\ pc \notin {"oplogReplay", "end"})
    => OpLess(tsOptime, _oplogLimitTS[1])

\* --------------------------------------------------------------------- C5
InInterval(e) ==
    /\ OpLess(e.ts, _oplogLimitTS[1])
    /\ (~isNull(tsOptime) => OpLess(tsOptime, e.ts))

\* C5: with a limit, the entries submitted with applyOps are exactly the
\* non-no-op entries read whose ts is below the limit and, when the destination
\* reported a newest entry, above that entry's ts; "<s>" alone means <s>:0 and
\* "1:1" means (1, 1).
C5_AppliedInInterval ==
    _oplogLimitTS # NULL =>
        /\ applied = SelectSeq(oplogSeen, LAMBDA e : e.op # "n" /\ InInterval(e))
        /\ (find(oplogLimit, ":") = NPOS => _oplogLimitTS[1][2] = 0)
        /\ (oplogLimit = << "1", ":", "1" >> => _oplogLimitTS[1] = << 1, 1 >>)
        /\ (oplogLimit = << "1", "1" >> => _oplogLimitTS[1] = << 11, 0 >>)

C5_Witness ==
    /\ _oplogLimitTS # NULL
    /\ ~isNull(tsOptime)
    /\ Len(applied) = 1
    /\ Len(oplogSeen) = 2
    /\ \A k \in 1..2 : oplogSeen[k].op # "n"

\* --------------------------------------------------------------------- C6
NonNoop(e) == e.op # "n"
Passes(e) == _opmatcher = NULL \/ matches(_opmatcher[1], e)

\* C6: at the end of a replay, applied is the number of non-no-op entries that
\* pass the matcher and skipped the number of those that fail it: the counters
\* count from zero.
C6_CountersFromZero ==
    (mongoRestoreGlobalParams.oplogReplay /\ status = "EXIT_CLEAN") =>
        /\ _oplogEntryApplies =
             << Len(SelectSeq(oplogSeen, LAMBDA e : NonNoop(e) /\ Passes(e))) >>
        /\ _oplogEntrySkips =
             << Len(SelectSeq(oplogSeen, LAMBDA e : NonNoop(e) /\ ~Passes(e))) >>

\* --------------------------------------------------------------------- C7
\* C7: system.indexes.bson of a traversed directory is visited only when every
\* other entry of that directory has been taken and processed, and only if no
\* entry of the directory is a *.metadata.json file.
C7_IndexesLast ==
    (pc = "drillDown" /\ ~path.top /\ path.name = INDEXES_BSON) =>
        /\ stack # << >>
        /\ Head(stack).rest = << >>
        /\ \A n \in Head(stack).names : ~endsWith(n, METADATA_JSON)

C7_Witness ==
    /\ pc = "drillDown" /\ ~path.top /\ path.name = INDEXES_BSON
    /\ stack # << >>
    /\ Cardinality(Head(stack).names) >= 2
    /\ docs # << >>

\* --------------------------------------------------------------------- C8
RootHasDir == root.dir /\ \E k \in 1..Len(root.kids) : root.kids[k].dir

\* drillDown(root, ...) has returned to doRun
WalkOver == pc \in {"afterDrillDown", "replay"} \/ status = "EXIT_CLEAN"

\* the entries of the root directory the iterator has yielded so far
Taken ==
    IF stack = << >> THEN << >>
    ELSE SubSeq(root.kids, 1, Len(root.kids) - Len(stack[Len(stack)].rest))

DbLayout ==
    IF WalkOver THEN layoutViolation <=> RootHasDir
    ELSE ~layoutViolation /\ \A k \in 1..Len(Taken) : ~Taken[k].dir

\* C8 as stated: with --db the layout error is printed if and only if an entry
\* taken from the traversed directory is a directory.
C8_Stated == use_db => DbLayout

\* C8 amended: with --db and without --collection the layout error is printed
\* if and only if an entry taken from the traversed directory is a directory
\* (with --collection it is also printed for a second entry of any kind).
C8_DbLayout == (use_db /\ ~use_coll) => DbLayout

C8_Witness == use_db /\ ~use_coll /\ layoutViolation /\ docs # << >>

\* --------------------------------------------------------------------- C9
\* C9: once the layout error is printed no unit is processed, no write and no
\* oplog replay reaches the destination, and the run does not end EXIT_CLEAN.
C9_ViolationFatal ==
    layoutViolation =>
        /\ pc \notin UnitPcs \cup {"replay"}
        /\ Writes(issued) = {}
        /\ status # "EXIT_CLEAN"

\* -------------------------------------------------------------------- C10
DataUnitOps == { "dropCollection", "create", "insert", "update", "remove" }

\* C10: with an oplog limit no data unit enters its pipeline and no drop,
\* create, insert, update or remove is sent; the run ends with
\* exit(EXIT_FAILURE) at the first data unit the walk reaches.
C10_LimitNoDataWrites ==
    _oplogLimitTS # NULL =>
        /\ pc \notin UnitPcs
        /\ \A k \in 1..Len(issued) : issued[k].op \notin DataUnitOps
        /\ (ns # << >> => status = "exit(EXIT_FAILURE)")

C10_Witness ==
    /\ status = "exit(EXIT_FAILURE)"
    /\ Len(stack) = 2
    /\ Head(stack).names # {}

\* -------------------------------------------------------------------- C11
\* C11: when one of the conditions that make the replay ineligible holds
\* (database override, log file missing, server too old, malformed limit, limit
\* not newer than the destination's newest oplog entry), doRun returns -1
\* before the walk starts and no write has been sent.
C11_IneligibleBeforeWalk ==
    ineligible # "none" =>
        /\ status = "return -1"
        /\ stack = << >>
        /\ path = NoPath
        /\ Writes(issued) = {}

\* -------------------------------------------------------------------- C12
RECURSIVE IsSubseq(_, _)
IsSubseq(a, b) ==
    IF a = << >> THEN TRUE
    ELSE IF b = << >> THEN FALSE
    ELSE IF Head(a) = Head(b) THEN IsSubseq(Tail(a), Tail(b))
    ELSE IsSubseq(a, Tail(b))

\* C12: oplog entries are read and applied only when drillDown(root) has
\* returned, so after every data unit of the walk; the oplog.bson of the dump
\* root is not a data unit of a full restore; and the applied entries were
\* submitted in the order they stand in the file.
C12_ReplayAfterUnits ==
    /\ (oplogSeen # << >> \/ \E k \in 1..Len(issued) : issued[k].op = "applyOps")
          => (stack = << >> /\ path = NoPath /\ pc \in {"replay", "end"})
    /\ (~use_db /\ pc \in UnitPcs \cup {"drillDown"} /\ Len(stack) = 1)
          => path.name # OPLOG_BSON
    /\ IsSubseq(applied, oplogSeen)

C12_Witness ==
    /\ Len(applied) = 2
    /\ applied[1].ts # applied[2].ts
    /\ docs # << >>

\* -------------------------------------------------------------------- C13
\* C13: under --drop, running the restore of a data file a second time leaves
\* every destination namespace with the documents the first run left in it.
C13_TwiceAsOnce ==
    (run = 2 /\ status = "EXIT_CLEAN" /\ drop) => docs = firstDocs

\* -------------------------------------------------------------------- C14
\* C14: _users is empty when a unit begins, is filled once, from the snapshot
\* taken before the first record of a system.users.bson unit under --drop, is
\* empty again when that unit is over, and stays empty in every other unit, in
\* the directory loop and in the oplog replay.
C14_RetentionSet ==
    /\ pc = "DropOrSnapshot" => _users = {}
    /\ (pc \in UnitPcs /\ ~(drop /\ path.name = USERS_BSON)) => _users = {}
    /\ (pc \in {"metadata", "CreateCollection"} /\ drop /\ path.name = USERS_BSON)
          => _users = unitPre
    /\ (pc \in {"Load", "Reconcile"} /\ drop /\ path.name = USERS_BSON)
          => _users \subseteq unitPre
    /\ (status = "running"
          /\ pc \notin {"metadata", "CreateCollection", "Load", "Reconcile"})
          => _users = {}
    /\ status = "EXIT_CLEAN" => _users = {}

C14_Witness ==
    /\ pc = "PostIndexes" /\ drop /\ path.name = USERS_BSON
    /\ unitPre # {}
    /\ fileIds # {}
    /\ _users = {}

\* -------------------------------------------------------------------- C15
\* C15: under --drop, right after the drop-or-snapshot step of a unit, a
\* destination namespace that is not a system.users collection has been
\* dropped with one dropCollection, and a destination namespace that is one
\* has not been dropped and its identifiers are in _users.
C15_DropByDestination ==
    (drop /\ pc = "metadata") =>
        IF nsToCollectionSubstring(ns) = << "system", ".", "users" >>
        THEN /\ \A k \in 1..Len(issued) : issued[k].op # "dropCollection"
             /\ _users = unitPre
        ELSE issued = << Op("dropCollection", ns) >>

\* ---------------------------------------------------------------------
\* C16: an error reported by the acknowledgement that follows a plain insert
\* or an applied oplog entry is written to the error channel and nothing
\* else: the process keeps running where it was, reading the same file, and
\* the write it followed has been issued
AckErrorLogged ==
    /\ \E k \in 1..Len(logged) : logged[k][2] \in LastErrors \ {""}
    /\ issued # << >>
    /\ issued[1].op \in {"insert", "applyOps"}

C16_AckErrorNotFatal ==
    AckErrorLogged =>
       /\ status = "running"
       /\ pc \in {"Load", "replay"}
       /\ mongoRestoreGlobalParams.w > 0
       /\ Len(issued) = 2
       /\ issued[2].op = "getLastError"
       /\ logged = << << IF issued[1].op = "applyOps"
                         THEN "Error while replaying oplog: " ELSE "",
                         "err" >> >>

\* C16 witness: the acknowledgement of the first insert of a file failed and
\* the next record of the file can still be read
C16_Witness ==
    /\ AckErrorLogged
    /\ pc = "Load" /\ nRead = 1 /\ issued[1].op = "insert"
    /\ ENABLED GotObject

\* ---------------------------------------------------------------------
\* the fields of an option document other than the rename hint, as
\* name/value pairs
WithoutCreate(obj) ==
    { << obj[k].name, obj[k].val >> : k \in { j \in 1..Len(obj) : obj[j].name # "create" } }

\* two option documents are equivalent: the same field names with equal
\* values, the "create" field ignored on both sides
Equivalent(obj1, obj2) == WithoutCreate(obj1) = WithoutCreate(obj2)

\* C17: the CreateCollection step is entered only when options restore is
\* requested and the metadata declares options; when the namespace exists no
\* create command is issued, the run continues to Load, and the warning is
\* written exactly when the options are not equivalent; a create command is
\* issued only when the namespace does not exist and it carries the current
\* collection name followed by the metadata options without the "create"
\* field and without undefined fields
C17_CreateCollectionStep ==
    /\ optionsCall # << >> =>
          /\ mongoRestoreGlobalParams.restoreOptions
          /\ metadataObject.options
    /\ (optionsCall # << >> /\ optionsCall[1].nsObj # << >>) =>
          /\ \A k \in 1..Len(issued) : issued[k].op # "create"
          /\ pc = "Load" /\ status = "running"
          /\ optionsCall[1].nsObj[1].options # << >> =>
                ((logged = << >>)
                   <=> Equivalent(CreateCommand(_curcoll, optionsCall[1].obj),
                                  optionsCall[1].nsObj[1].options[1]))
    /\ \A k \in 1..Len(issued) :
          issued[k].op = "create" =>
             /\ optionsCall # << >>
             /\ optionsCall[1].nsObj = << >>
             /\ issued[k].cmd[1] = Field("create", _curcoll)
             /\ Tail(issued[k].cmd)
                  = SelectSeq(optionsCall[1].obj,
                              LAMBDA e : e.name # "create" /\ e.val # Undefined)

\* ---------------------------------------------------------------------
\* C20: for every built creation command and every existing options
\* document the comparison reports 'same' exactly when the two documents are
\* equal field for field once the "create" field is removed from both
C20_OptionsSameIgnoresCreate ==
    (optionsCall # << >>
       /\ optionsCall[1].nsObj # << >>
       /\ optionsCall[1].nsObj[1].options # << >>) =>
      LET obj1 == CreateCommand(_curcoll, optionsCall[1].obj)
          obj2 == optionsCall[1].nsObj[1].options[1]
      IN  optionsSame(obj1, obj2) <=> Equivalent(obj1, obj2)

\* ---------------------------------------------------------------------
\* C18: once the namespace of a data file is resolved, the destination
\* database is the database override if given, otherwise the name of the
\* file's parent directory ("test" when that name is empty), the destination
\* collection is the collection override if given, otherwise the file's
\* name with its last suffix stripped, and the database name is not empty
C18_NamespaceResolution ==
    (pc \in {"CreateCollection", "Load", "Reconcile", "PostIndexes", "indexes", "Done"}
       /\ path # NoPath) =>
       /\ _curdb = (IF toolGlobalParams.db # << >> THEN toolGlobalParams.db
                    ELSE IF path.parent = << >> THEN <<"test">> ELSE path.parent)
       /\ _curcoll = (IF toolGlobalParams.coll # << >> THEN toolGlobalParams.coll
                      ELSE SubSeq(path.name, 1, find_last_of(path.name, ".") - 1))
       /\ _curdb # << >>

\* ---------------------------------------------------------------------
\* the traversed directory breaks the --collection layout: its first entry
\* is a directory, or an entry follows the first
CollLayoutBroken ==
    root.dir /\ root.kids # << >> /\ (root.kids[1].dir \/ Len(root.kids) > 1)

\* C19: with --collection a traversed directory yields a unit only if it
\* holds exactly one entry and that entry is a file; otherwise the layout
\* error is printed before any entry is processed, and nothing from that
\* directory is written to the destination
C19_CollLayout ==
    use_coll =>
       /\ (pc \in UnitPcs /\ root.dir) => (Len(root.kids) = 1 /\ ~root.kids[1].dir)
       /\ CollLayoutBroken =>
             /\ pc \notin UnitPcs
             /\ WalkOver => layoutViolation
             /\ Writes(issued) = {}
             /\ applied = << >>
             /\ docs = << >>

\* ---------------------------------------------------------------------
\* no request of ops is a write sent while an earlier write is still
\* without its getLastError
OneOutstanding(before, ops) ==
    \A k \in 1..Len(ops) :
       ops[k].op \in WriteRequests => ~Unacked(before, SubSeq(ops, 1, k - 1))

\* C21: with w > 0 at most one write is outstanding: between two consecutive
\* writes (insert, applied oplog entry, index insert, privilege update,
\* privilege remove) getLastError is called for the first before the second
\* is sent
C21_OneOutstandingWrite ==
    [][mongoRestoreGlobalParams.w > 0 => OneOutstanding(unacked, issued')]_vars

\* ---------------------------------------------------------------------
\* the namespace a data unit made of the root's oplog.bson would have
OplogFileNs == NsOf([name |-> OPLOG_BSON, parent |-> root.name])

\* C22: without --db the oplog.bson the root directory holds is never a data
\* unit of the walk: drillDown is not called on it, no drop, create, insert,
\* update or remove names the namespace derived from it and the destination
\* gets no such namespace; its records are read only in the replay step and
\* only when --oplogReplay was given
C22_OplogNotADataUnit ==
    /\ (~use_db /\ root.dir /\ OPLOG_BSON \in Names(root.kids)) =>
          /\ (pc \in UnitPcs \cup {"drillDown"} /\ Len(stack) = 1)
                => path.name # OPLOG_BSON
          /\ \A k \in 1..Len(issued) :
                issued[k].op \in DataUnitOps => issued[k].ns # OplogFileNs
          /\ OplogFileNs \notin DOMAIN docs
    /\ oplogSeen # << >> =>
          /\ mongoRestoreGlobalParams.oplogReplay
          /\ pc \in {"replay", "end"}
          /\ stack = << >>

\* C22 witness: the walk passed an oplog.bson that stands first in the
\* root, restored a data file after it, and the replay then applied an entry
C22_Witness ==
    /\ ~use_db /\ root.dir
    /\ root.kids # << >> /\ root.kids[1].name = OPLOG_BSON
    /\ docs # << >>
    /\ pc = "replay" /\ applied # << >>

\* ---------------------------------------------------------------------
\* C23: gotObject takes its oplog branch exactly in the replay step: while a
\* file is read _curns is the sentinel if and only if the run is replaying;
\* the namespace of a data unit is a non-empty database name, a dot and the
\* collection name, hence not the sentinel; and until the replay begins no
\* record was handled as an oplog entry, no applyOps was sent and neither
\* counter was written
C23_OplogBranchOnlyInReplay ==
    /\ pc \in {"Load", "replay"} =>
          ((Branch([user |-> "a"]) = "oplog") <=> pc = "replay")
    /\ pc \in {"CreateCollection", "Load", "Reconcile", "PostIndexes", "indexes", "Done"} =>
          /\ find(_curns, ".") > 1
          /\ _curns = nsToDatabase(_curns) \o <<".">> \o nsToCollectionSubstring(_curns)
          /\ _curns # OPLOG_SENTINEL
    /\ pc \notin {"replay", "end"} =>
          /\ oplogSeen = << >> /\ applied = << >>
          /\ \A k \in 1..Len(issued) : issued[k].op # "applyOps"
          /\ _oplogEntrySkips = Indeterminate
          /\ _oplogEntryApplies = Indeterminate

\* C23 witness: a record of a data unit was inserted during the walk of a
\* run that will replay the oplog, and the counters are still unwritten
C23_Witness ==
    /\ mongoRestoreGlobalParams.oplogReplay
    /\ pc = "Load" /\ nRead > 0
    /\ \E k \in 1..Len(issued) : issued[k].op = "insert"
    /\ _oplogEntryApplies = Indeterminate

====
